---- MODULE Spec2Model ----
(***************************************************************************)
(* Sistema de Nomina: the employee roster (GestorEmpleados over            *)
(* RepositorioEmpleados), the monthly payroll generation and the payroll   *)
(* statistics (GestorNominas), with the domain classes of models.py.       *)
(*                                                                         *)
(* Representation.  Python values are dynamically typed, so every field    *)
(* value is a tagged value [t, s, n]: Str(s) is a str whose characters are *)
(* the one-character strings of the tuple s, Num(n) is an int or float.    *)
(* Money is held exactly, in cents (1234.56 is 123456); the salaries drawn *)
(* below are not ties of round(x, 2), where binary floats and exact        *)
(* decimals could disagree.                                                *)
(***************************************************************************)
EXTENDS Integers, Sequences, FiniteSets, TLC

VARIABLES
    empleados,     \* GestorEmpleados.empleados: the in-memory roster, a list of Empleado
    archivo,       \* the file empleados.json: [existe, json, datos]
    nominas,       \* the files nomina_<aniomes>.json: aniomes -> <<>> (absent) or <<doc>>
    hoy,           \* datetime.date.today(), as an index into Periodos
    estadisticas,  \* what the last consultar_estadisticas_nomina computed
    generadas,     \* history: the documents written by generar_nomina_mensual, in call order
    llamadas,      \* history: number of calls made so far
    ultima,        \* the last call: its name, its arguments, what it returned and printed
    fase           \* where main() is: "inicio", "menu" (the loop), "terminado" (it ended)

vars == <<empleados, archivo, nominas, hoy, estadisticas, generadas, llamadas, ultima, fase>>

-----------------------------------------------------------------------------
(* Bounds *)

\* Number of calls (crear, modificar, eliminar, generar, consultar) in a run.
MaxLlamadas == 3

-----------------------------------------------------------------------------
(* Values *)

Str(s) == [t |-> "str", s |-> s, n |-> 0]
Num(n) == [t |-> "num", s |-> <<>>, n |-> n]

Letras ==
    {"a","b","c","d","e","f","g","h","i","j","k","l","m","n","o","p","q","r","s",
     "t","u","v","w","x","y","z","A","B","C","D","E","F","G","H","I","J","K","L",
     "M","N","O","P","Q","R","S","T","U","V","W","X","Y","Z"}
Espacios == {" "}
Digitos == {"0","1","2","3","4","5","6","7","8","9"}

Campos == <<"cedula", "nombre", "sueldo", "departamento", "cargo">>
CamposSet == {Campos[i] : i \in 1..Len(Campos)}

\* str.isdigit(): non-empty and every character a digit.
isdigit(s) == Len(s) >= 1 /\ \A i \in 1..Len(s) : s[i] \in Digitos

\* re.fullmatch(r'^[a-zA-Z\s]+$', s): one or more letters or blanks, nothing else.
fullmatch_letras(s) == Len(s) >= 1 /\ \A i \in 1..Len(s) : s[i] \in Letras \cup Espacios

\* str(x) of a value: the characters of a str, the decimal digits of a number >= 0.
DigitChar == <<"0","1","2","3","4","5","6","7","8","9">>
RECURSIVE Digits(_)
Digits(n) ==
    IF n < 10 THEN <<DigitChar[n + 1]>>
    ELSE Append(Digits(n \div 10), DigitChar[(n % 10) + 1])
py_str(v) == IF v.t = "str" THEN v.s ELSE Digits(v.n)

-----------------------------------------------------------------------------
(* models.py *)

\* validate_empleado's wrapper: "ok" when func is called, else the exception raised.
\* emp is a dict: a function from some of the field names to values.
validate_empleado(emp) ==
    IF ~(CamposSet \subseteq DOMAIN emp) THEN "ValueError"
    ELSE IF emp["sueldo"].t # "num" \/ emp["sueldo"].n <= 0 THEN "ValueError"
    ELSE IF ~isdigit(py_str(emp["cedula"])) \/ Len(py_str(emp["cedula"])) # 10
         THEN "ValueError"
    ELSE IF emp["nombre"].t # "str" THEN "TypeError"
    ELSE IF ~fullmatch_letras(emp["nombre"].s) THEN "ValueError"
    ELSE IF emp["departamento"].t # "str" THEN "TypeError"
    ELSE IF ~fullmatch_letras(emp["departamento"].s) THEN "ValueError"
    ELSE IF emp["cargo"].t # "str" THEN "TypeError"
    ELSE IF ~fullmatch_letras(emp["cargo"].s) THEN "ValueError"
    ELSE "ok"

\* Empleado(**d): an object with the five attributes, taken from the dict by keyword.
Empleado(d) == [k \in CamposSet |-> d[k]]

\* Empleado.to_dict: the object's __dict__, a JSON object written as its
\* <<key, value>> pairs in attribute order.
Empleado_to_dict(e) == [i \in 1..Len(Campos) |-> <<Campos[i], e[Campos[i]]>>]

\* The dict json.load rebuilds from a JSON object.
dict_de(obj) ==
    [k \in {obj[i][1] : i \in 1..Len(obj)} |->
        LET i == CHOOSE j \in 1..Len(obj) : obj[j][1] = k IN obj[i][2]]

-----------------------------------------------------------------------------
(* services.py: RepositorioEmpleados, GestorEmpleados *)

\* json.load(f) raises JSONDecodeError when the text of the file is not JSON.
json_load_lanza(f) == f.existe /\ ~f.json

\* RepositorioEmpleados.cargar_datos: [] when the file does not exist, else
\* what json.load returns (see json_load_lanza).
cargar_datos(f) == IF ~f.existe THEN <<>> ELSE f.datos

\* Empleado(**d) raises TypeError unless the keywords are exactly the five
\* parameters of Empleado.__init__.
Empleado_lanza(d) == DOMAIN d # CamposSet

\* What GestorEmpleados.cargar_empleados raises on the file f, "None" if nothing.
cargar_empleados_lanza(f) ==
    IF json_load_lanza(f) THEN "JSONDecodeError"
    ELSE IF \E i \in 1..Len(cargar_datos(f)) : Empleado_lanza(dict_de(cargar_datos(f)[i]))
    THEN "TypeError"
    ELSE "None"

\* RepositorioEmpleados.guardar_datos: the file rewritten whole.
guardar_datos(datos) == [existe |-> TRUE, json |-> TRUE, datos |-> datos]

\* GestorEmpleados.cargar_empleados
cargar_empleados(f) ==
    LET datos == cargar_datos(f) IN [i \in 1..Len(datos) |-> Empleado(dict_de(datos[i]))]

\* GestorEmpleados.guardar_empleados: the file after saving the roster emps.
guardar_empleados_sin_ultimo(emps) ==
    guardar_datos([i \in 1..(IF Len(emps) > 1 THEN Len(emps) - 1 ELSE Len(emps)) |->
                      Empleado_to_dict(emps[i])])
guardar_empleados(emps) ==
    guardar_datos([i \in 1..Len(emps) |-> Empleado_to_dict(emps[i])])

\* next((e for e in self.empleados if e.cedula == cedula), None): the index of
\* the first employee with that cedula, 0 for None.
empleado_encontrado(emps, cedula) ==
    IF \E i \in 1..Len(emps) : emps[i]["cedula"] = cedula
    THEN CHOOSE i \in 1..Len(emps) :
            /\ emps[i]["cedula"] = cedula
            /\ \A j \in 1..(i - 1) : emps[j]["cedula"] # cedula
    ELSE 0

\* list.remove(x) of the object at index i (Empleado defines no __eq__, so the
\* object found is the one removed).
list_remove_y_siguiente(l, i) == SubSeq(l, 1, i - 1) \o SubSeq(l, i + 2, Len(l))
list_remove(l, i) == SubSeq(l, 1, i - 1) \o SubSeq(l, i + 1, Len(l))

\* setattr(empleado, key, value) for every item of cambios.
setattrs(e, cambios) ==
    [k \in (DOMAIN e) \cup (DOMAIN cambios) |->
        IF k \in DOMAIN cambios THEN cambios[k] ELSE e[k]]

-----------------------------------------------------------------------------
(* models.py: DetalleNomina, Nomina *)

BONO == 5000          \* Nomina.BONO = 50.0
PRESTAMO == 2000      \* Nomina.PRESTAMO = 20.0
IESS_POR_DIEZ_MIL == 945   \* the rate 0.0945

\* round(sueldo * 0.0945, 2) on an amount in cents: to the nearest cent, an
\* exact half to the even cent.
round_iess(sueldo) ==
    LET x == sueldo * IESS_POR_DIEZ_MIL
        q == x \div 10000
        r == x % 10000
    IN  IF 2 * r < 10000 THEN q
        ELSE IF 2 * r > 10000 THEN q + 1
        ELSE IF q % 2 = 0 THEN q ELSE q + 1

\* DetalleNomina.__init__ (sueldo, bono, prestamo are numbers here; see puede_calcular).
DetalleNomina(id, empleado, sueldo, bono, prestamo) ==
    LET tot_ing == sueldo + bono
        iess    == round_iess(sueldo)
        tot_des == iess + prestamo
    IN  [id |-> id, empleado |-> empleado, sueldo |-> sueldo, bono |-> bono,
         tot_ing |-> tot_ing, iess |-> iess, prestamo |-> prestamo,
         tot_des |-> tot_des, neto |-> tot_ing - tot_des]

\* self.sueldo + self.bono and self.sueldo * 0.0945 raise TypeError unless the
\* employee's sueldo is a number.
puede_calcular(empleado) == empleado["sueldo"].t = "num"

\* DetalleNomina.to_dict: the employee is written as its name only.
DetalleNomina_to_dict(d) ==
    [id |-> d.id, empleado |-> d.empleado["nombre"], sueldo |-> d.sueldo,
     bono |-> d.bono, tot_ing |-> d.tot_ing, iess |-> d.iess,
     prestamo |-> d.prestamo, tot_des |-> d.tot_des, neto |-> d.neto]

\* Nomina.__init__
Nomina(id, aniomes) ==
    [id |-> id, aniomes |-> aniomes, tot_ing |-> 0, tot_des |-> 0, neto |-> 0,
     detalles |-> <<>>]

\* Nomina.generar_detalle
generar_detalle(empleado, id_detalle) ==
    DetalleNomina(id_detalle, empleado, empleado["sueldo"].n, BONO, PRESTAMO)

\* Nomina.agregar_detalle: the detail appended and the three totals advanced.
agregar_detalle(nomina, detalle) ==
    [nomina EXCEPT !.detalles = Append(@, detalle),
                   !.tot_ing = @ + detalle.tot_ing,
                   !.tot_des = @ + detalle.tot_des,
                   !.neto = @ + detalle.neto]

\* Nomina.to_dict
Nomina_to_dict(nomina) ==
    [id |-> nomina.id, aniomes |-> nomina.aniomes, tot_ing |-> nomina.tot_ing,
     tot_des |-> nomina.tot_des, neto |-> nomina.neto,
     detalles |-> [i \in 1..Len(nomina.detalles) |->
                      DetalleNomina_to_dict(nomina.detalles[i])]]

-----------------------------------------------------------------------------
(* services.py: GestorNominas *)

\* The periods date.today().strftime('%Y%m') takes during a run, in order.
Periodos == <<"202410", "202411">>
\* A period before the run, for which a payroll file may already lie in the directory.
PeriodoPrevio == "202409"
\* A period for which there is never a file.
PeriodoSinNomina == "202412"
PeriodosConArchivo == {PeriodoPrevio} \cup {Periodos[i] : i \in 1..Len(Periodos)}

aniomes_de_hoy(h) == Periodos[h]

\* The entries of the working directory that are neither empleados.json nor a
\* payroll file (main.py, models.py, services.py).
OtrosArchivos == 3

\* len(os.listdir('.'))
len_listdir(f, noms) ==
    OtrosArchivos + (IF f.existe THEN 1 ELSE 0)
        + Cardinality({p \in DOMAIN noms : noms[p] # <<>>})

\* id_nomina = len(os.listdir('.')) + 1
id_nomina_fijo(f, noms) == 1
id_nomina(f, noms) == len_listdir(f, noms) + 1

\* The loop of generar_nomina_mensual: the Nomina after the first k employees
\* have been processed (id_detalle runs 1, 2, ...).
RECURSIVE nomina_tras(_, _, _)
nomina_tras(nomina, emps, k) ==
    IF k = 0 THEN nomina
    ELSE agregar_detalle(nomina_tras(nomina, emps, k - 1), generar_detalle(emps[k], k))

\* "if not empleados"
no_hay_empleados_nunca(emps) == FALSE
no_hay_empleados(emps) == emps = <<>>

\* The Nomina object consultar_estadisticas_nomina rebuilds from a stored
\* document: only detalles is filled, each detail recomputed from sueldo, bono
\* and prestamo around a dummy Empleado that carries the name.
reconstruir_detalles(doc) ==
    [i \in 1..Len(doc.detalles) |->
        LET d == doc.detalles[i] IN
        DetalleNomina(d.id,
                      Empleado([cedula |-> Str(<<>>), nombre |-> d.empleado,
                                sueldo |-> Num(d.sueldo), departamento |-> Str(<<>>),
                                cargo |-> Str(<<>>)]),
                      d.sueldo, d.bono, d.prestamo)]

\* reduce(lambda acumulado, detalle: acumulado + detalle.neto, detalles, 0.0)
RECURSIVE reduce_neto(_, _)
reduce_neto(detalles, k) ==
    IF k = 0 THEN 0 ELSE reduce_neto(detalles, k - 1) + detalles[k].neto

\* sum(sueldos)
RECURSIVE sum_sueldos(_, _)
sum_sueldos(detalles, k) ==
    IF k = 0 THEN 0 ELSE sum_sueldos(detalles, k - 1) + detalles[k].sueldo

\* sum(sueldos) / len(sueldos) if sueldos else 0, kept as the exact fraction.
promedio_sueldos(detalles) ==
    IF detalles # <<>> THEN [num |-> sum_sueldos(detalles, Len(detalles)),
                             den |-> Len(detalles)]
    ELSE [num |-> 0, den |-> 1]

SUELDO_ALTO == 100000   \* the 1000 of "d.sueldo > 1000"

\* list(filter(lambda d: d.sueldo > 1000, detalles)), then the names.
RECURSIVE nombres_altos(_, _)
nombres_altos(detalles, k) ==
    IF k = 0 THEN <<>>
    ELSE LET antes == nombres_altos(detalles, k - 1) IN
         IF detalles[k].sueldo > SUELDO_ALTO
         THEN Append(antes, detalles[k].empleado["nombre"]) ELSE antes

\* max(detalles, key=lambda d: d.neto, default=None): the scan keeps the first
\* of the greatest; <<>> stands for None.
RECURSIVE max_desde(_, _, _)
max_desde(detalles, i, mejor) ==
    IF i > Len(detalles) THEN mejor
    ELSE max_desde(detalles, i + 1,
                   IF detalles[i].neto > detalles[mejor].neto THEN i ELSE mejor)
RECURSIVE max_ultimo_desde(_, _, _)
max_ultimo_desde(detalles, i, mejor) ==
    IF i > Len(detalles) THEN mejor
    ELSE max_ultimo_desde(detalles, i + 1,
                   IF detalles[i].neto >= detalles[mejor].neto THEN i ELSE mejor)
mayor_neto_ultimo(detalles) ==
    IF detalles = <<>> THEN <<>> ELSE <<detalles[max_ultimo_desde(detalles, 2, 1)]>>
mayor_neto(detalles) ==
    IF detalles = <<>> THEN <<>> ELSE <<detalles[max_desde(detalles, 2, 1)]>>

\* min(detalles, key=lambda d: d.neto, default=None)
RECURSIVE min_desde(_, _, _)
min_desde(detalles, i, mejor) ==
    IF i > Len(detalles) THEN mejor
    ELSE min_desde(detalles, i + 1,
                   IF detalles[i].neto < detalles[mejor].neto THEN i ELSE mejor)
menor_neto(detalles) ==
    IF detalles = <<>> THEN <<>> ELSE <<detalles[min_desde(detalles, 2, 1)]>>

\* What consultar_estadisticas_nomina computes from a stored document.
calcular_estadisticas(doc) ==
    LET detalles == reconstruir_detalles(doc) IN
    [total_empleados  |-> Len(detalles),
     total_neto       |-> reduce_neto(detalles, Len(detalles)),
     promedio_sueldos |-> promedio_sueldos(detalles),
     nombres_altos    |-> nombres_altos(detalles, Len(detalles)),
     mayor_neto       |-> mayor_neto(detalles),
     menor_neto       |-> menor_neto(detalles)]

-----------------------------------------------------------------------------
(* Inputs: what main.py, or any other caller, passes to the managers *)

CedulaA == Str(<<"0","9","1","2","3","4","5","6","7","8">>)
CedulaB == Str(<<"1","7","0","0","0","0","0","0","0","1">>)
CedulaAusente == Str(<<"0","0","0","0","0","0","0","0","0","0">>)
CedulaCorta == Str(<<"1","2","3","4","5">>)
CedulaConLetra == Str(<<"1","7","0","0","0","0","0","0","0","x">>)

Ana == Str(<<"A","n","a">>)
LuisPaz == Str(<<"L","u","i","s"," ","P","a","z">>)
Ventas == Str(<<"V","e","n","t","a","s">>)
Cajero == Str(<<"C","a","j","e","r","o">>)
R2D2 == Str(<<"R","2","D","2">>)
Vacio == Str(<<>>)
NoNumero == Str(<<"m","i","l">>)

EmpleadoA ==
    [cedula |-> CedulaA, nombre |-> Ana, sueldo |-> Num(123456),
     departamento |-> Ventas, cargo |-> Cajero]
EmpleadoB ==
    [cedula |-> CedulaB, nombre |-> LuisPaz, sueldo |-> Num(123456),
     departamento |-> Ventas, cargo |-> Cajero]

\* The dicts passed to crear_empleado: valid ones, one that repeats a cedula
\* with other data, and one for each way of breaking a rule.
Candidatos ==
    { EmpleadoA, EmpleadoB,
      [EmpleadoA EXCEPT !["nombre"] = LuisPaz, !["sueldo"] = Num(100000)],
      [cedula |-> CedulaB, nombre |-> LuisPaz, sueldo |-> Num(123456),
       departamento |-> Ventas],
      [EmpleadoB EXCEPT !["sueldo"] = NoNumero],
      [EmpleadoB EXCEPT !["sueldo"] = Num(0)],
      [EmpleadoB EXCEPT !["sueldo"] = Num(-50000)],
      [EmpleadoB EXCEPT !["cedula"] = CedulaCorta],
      [EmpleadoB EXCEPT !["cedula"] = CedulaConLetra],
      [EmpleadoB EXCEPT !["nombre"] = R2D2],
      [EmpleadoB EXCEPT !["nombre"] = Num(7)],
      [EmpleadoB EXCEPT !["departamento"] = R2D2],
      [EmpleadoB EXCEPT !["cargo"] = Vacio] }

\* The cedulas passed to modificar_empleado and eliminar_empleado.
CedulasBuscadas == {CedulaA, CedulaB, CedulaAusente}

\* The mappings passed to modificar_empleado as cambios.
CambiosPosibles ==
    { <<>>,
      [sueldo |-> Num(100000)],
      [sueldo |-> Num(-50000)],
      [sueldo |-> NoNumero],
      [nombre |-> R2D2],
      [nombre |-> LuisPaz, sueldo |-> Num(100000)],
      [departamento |-> Vacio],
      [cargo |-> R2D2],
      [cedula |-> CedulaB] }

\* The periods passed to consultar_estadisticas_nomina.
PeriodosConsultados == PeriodosConArchivo \cup {PeriodoSinNomina}

\* A payroll file without details that some other program left for PeriodoPrevio.
NominaPreviaSinDetalles == Nomina_to_dict(Nomina(1, PeriodoPrevio))

-----------------------------------------------------------------------------
(* The run *)

SinEstadisticas ==
    [total_empleados |-> 0, total_neto |-> 0, promedio_sueldos |-> [num |-> 0, den |-> 1],
     nombres_altos |-> <<>>, mayor_neto |-> <<>>, menor_neto |-> <<>>]

Llamada(op, ret, impreso) ==
    [op |-> op, ret |-> ret, impreso |-> impreso, emp |-> <<>>, cedula |-> Vacio,
     cambios |-> <<>>, aniomes |-> ""]

\* No file empleados.json.
SinArchivo == [existe |-> FALSE, json |-> FALSE, datos |-> <<>>]
\* A file empleados.json whose text is not JSON (cut short, edited by hand).
ArchivoNoJSON == [existe |-> TRUE, json |-> FALSE, datos |-> <<>>]
\* A file empleados.json that is JSON but whose second record lacks "cargo".
ArchivoSinCargo ==
    guardar_datos(<<Empleado_to_dict(EmpleadoA),
                    SubSeq(Empleado_to_dict(EmpleadoB), 1, 4)>>)

\* Before main() runs.  The directory holds no empleados.json, one saved by an
\* earlier run, or a damaged one, and may hold an earlier payroll file.
Init ==
    /\ archivo \in { SinArchivo,
                     guardar_empleados(<<EmpleadoA>>),
                     ArchivoNoJSON,
                     ArchivoSinCargo }
    /\ empleados = <<>>
    /\ nominas \in { [p \in PeriodosConArchivo |-> <<>>],
                     [p \in PeriodosConArchivo |->
                         IF p = PeriodoPrevio THEN <<NominaPreviaSinDetalles>> ELSE <<>>] }
    /\ hoy = 1
    /\ estadisticas = SinEstadisticas
    /\ generadas = <<>>
    /\ llamadas = 0
    /\ ultima = Llamada("ninguna", "None", "")
    /\ fase = "inicio"

\* main(): RepositorioEmpleados(), GestorEmpleados(repo), whose __init__ loads the
\* roster from empleados.json, GestorNominas(gestor).  An exception raised by the
\* load is caught nowhere and ends the program.
GestorEmpleados_init ==
    /\ fase = "inicio"
    /\ UNCHANGED <<archivo, nominas, hoy, estadisticas, generadas, llamadas>>
    /\ IF cargar_empleados_lanza(archivo) # "None"
       THEN /\ ultima' = Llamada("main", cargar_empleados_lanza(archivo), "")
            /\ fase' = "terminado"
            /\ UNCHANGED empleados
       ELSE /\ empleados' = cargar_empleados(archivo)
            /\ ultima' = Llamada("main", "None", "")
            /\ fase' = "menu"

\* GestorEmpleados.crear_empleado, under its decorator validate_empleado.
crear_empleado(nuevo_empleado) ==
    LET v == validate_empleado(nuevo_empleado) IN
    /\ fase = "menu" /\ UNCHANGED fase
    /\ llamadas < MaxLlamadas
    /\ llamadas' = llamadas + 1
    /\ UNCHANGED <<nominas, hoy, estadisticas, generadas>>
    /\ IF v # "ok"
       THEN /\ ultima' = [Llamada("crear", v, "") EXCEPT !.emp = nuevo_empleado]
            /\ UNCHANGED <<empleados, archivo>>
       ELSE IF \E i \in 1..Len(empleados) :
                  empleados[i]["cedula"] = nuevo_empleado["cedula"]
       THEN /\ ultima' = [Llamada("crear", "False", "Error: Ya existe un empleado con esa cedula.")
                            EXCEPT !.emp = nuevo_empleado]
            /\ UNCHANGED <<empleados, archivo>>
       ELSE /\ empleados' = Append(empleados, Empleado(nuevo_empleado))
            /\ archivo' = guardar_empleados(empleados')
            /\ ultima' = [Llamada("crear", "True", "") EXCEPT !.emp = nuevo_empleado]

\* GestorEmpleados.modificar_empleado
modificar_empleado(cedula, cambios) ==
    LET i == empleado_encontrado(empleados, cedula) IN
    /\ fase = "menu" /\ UNCHANGED fase
    /\ llamadas < MaxLlamadas
    /\ llamadas' = llamadas + 1
    /\ UNCHANGED <<nominas, hoy, estadisticas, generadas>>
    /\ IF i = 0
       THEN /\ ultima' = [Llamada("modificar", "False", "Error: Empleado no encontrado.")
                            EXCEPT !.cedula = cedula, !.cambios = cambios]
            /\ UNCHANGED <<empleados, archivo>>
       ELSE /\ empleados' = [empleados EXCEPT ![i] = setattrs(@, cambios)]
            /\ archivo' = guardar_empleados(empleados')
            /\ ultima' = [Llamada("modificar", "True", "")
                            EXCEPT !.cedula = cedula, !.cambios = cambios]

\* GestorEmpleados.eliminar_empleado
eliminar_empleado(cedula) ==
    LET i == empleado_encontrado(empleados, cedula) IN
    /\ fase = "menu" /\ UNCHANGED fase
    /\ llamadas < MaxLlamadas
    /\ llamadas' = llamadas + 1
    /\ UNCHANGED <<nominas, hoy, estadisticas, generadas>>
    /\ IF i = 0
       THEN /\ ultima' = [Llamada("eliminar", "False", "Error: Empleado no encontrado.")
                            EXCEPT !.cedula = cedula]
            /\ UNCHANGED <<empleados, archivo>>
       ELSE /\ empleados' = list_remove(empleados, i)
            /\ archivo' = guardar_empleados(empleados')
            /\ ultima' = [Llamada("eliminar", "True", "") EXCEPT !.cedula = cedula]

\* GestorNominas.generar_nomina_mensual
generar_nomina_mensual ==
    LET aniomes == aniomes_de_hoy(hoy)
        nomina  == nomina_tras(Nomina(id_nomina(archivo, nominas), aniomes),
                               empleados, Len(empleados))
    IN
    /\ fase = "menu" /\ UNCHANGED fase
    /\ llamadas < MaxLlamadas
    /\ llamadas' = llamadas + 1
    /\ UNCHANGED <<empleados, archivo, hoy, estadisticas>>
    /\ IF no_hay_empleados(empleados)
       THEN /\ ultima' = [Llamada("generar", "None", "No hay empleados para generar la nomina.")
                            EXCEPT !.aniomes = aniomes]
            /\ UNCHANGED <<nominas, generadas>>
       ELSE IF \E i \in 1..Len(empleados) : ~puede_calcular(empleados[i])
       THEN /\ ultima' = [Llamada("generar", "TypeError", "") EXCEPT !.aniomes = aniomes]
            /\ UNCHANGED <<nominas, generadas>>
       ELSE /\ nominas' = [nominas EXCEPT ![aniomes] = <<Nomina_to_dict(nomina)>>]
            /\ generadas' = Append(generadas, Nomina_to_dict(nomina))
            /\ ultima' = [Llamada("generar", "None", "Nomina generada exitosamente")
                            EXCEPT !.aniomes = aniomes]

\* GestorNominas.consultar_estadisticas_nomina
consultar_estadisticas_nomina(aniomes) ==
    /\ fase = "menu" /\ UNCHANGED fase
    /\ llamadas < MaxLlamadas
    /\ llamadas' = llamadas + 1
    /\ UNCHANGED <<empleados, archivo, nominas, hoy, generadas>>
    /\ IF aniomes \notin DOMAIN nominas \/ nominas[aniomes] = <<>>
       THEN /\ ultima' = [Llamada("consultar", "None", "Error: No se encontro la nomina")
                            EXCEPT !.aniomes = aniomes]
            /\ UNCHANGED estadisticas
       ELSE /\ estadisticas' = calcular_estadisticas(nominas[aniomes][1])
            /\ ultima' = [Llamada("consultar", "None", "Estadisticas de Nomina")
                            EXCEPT !.aniomes = aniomes]

\* The calendar month ends: date.today() moves to the next period.
pasa_el_mes ==
    /\ fase = "menu" /\ UNCHANGED fase
    /\ hoy < Len(Periodos)
    /\ hoy' = hoy + 1
    /\ UNCHANGED <<empleados, archivo, nominas, estadisticas, generadas, llamadas, ultima>>

Next ==
    \/ GestorEmpleados_init
    \/ \E c \in Candidatos : crear_empleado(c)
    \/ \E c \in CedulasBuscadas, m \in CambiosPosibles : modificar_empleado(c, m)
    \/ \E c \in CedulasBuscadas : eliminar_empleado(c)
    \/ generar_nomina_mensual
    \/ \E p \in PeriodosConsultados : consultar_estadisticas_nomina(p)
    \/ pasa_el_mes

Spec == Init /\ [][Next]_vars

-----------------------------------------------------------------------------
(* Properties *)

RECURSIVE SumaSeq(_)
SumaSeq(s) == IF s = <<>> THEN 0 ELSE Head(s) + SumaSeq(Tail(s))

\* The step just taken was a call (pasa_el_mes leaves ultima as it was).
HuboLlamada == llamadas' # llamadas

\* A value obeys the rule of a text field: a str of one or more letters and blanks.
TextoValido(v) == v.t = "str" /\ fullmatch_letras(v.s)

\* C1: after any sequence of crear / modificar / eliminar calls no two employees
\* of the roster have the same cedula.
C1_CedulasUnicas ==
    \A i, j \in 1..Len(empleados) :
        i # j => empleados[i]["cedula"] # empleados[j]["cedula"]

\* C2: after any sequence of crear / modificar / eliminar calls every employee
\* of the roster has a sueldo > 0, a cedula of 10 digits and a nombre, a
\* departamento and a cargo made of letters and blanks only (a value that breaks
\* its field's rule is never applied by modificar).
C2_EmpleadosValidos ==
    \A i \in 1..Len(empleados) :
        LET e == empleados[i] IN
        /\ e["sueldo"].t = "num" /\ e["sueldo"].n > 0
        /\ e["cedula"].t = "str" /\ isdigit(e["cedula"].s) /\ Len(e["cedula"].s) = 10
        /\ TextoValido(e["nombre"])
        /\ TextoValido(e["departamento"])
        /\ TextoValido(e["cargo"])

\* C3: crear reports every failure through its return value: it returns True or
\* False and never raises.
C3_CrearNoLanza ==
    ultima.op = "crear" => ultima.ret \in {"True", "False"}

\* C4 (as claimed): when generar has run twice for the same period, the document
\* the first call wrote is still in the payroll store, unchanged, and the two
\* documents carry different run identifiers.
C4_DocumentosIndependientes ==
    \A i, j \in 1..Len(generadas) :
        (i < j /\ generadas[i].aniomes = generadas[j].aniomes) =>
            /\ nominas[generadas[i].aniomes] = <<generadas[i]>>
            /\ generadas[i].id # generadas[j].id

\* C4 (amended): a successful generar writes one document under the name of the
\* current period, in place of whatever document was stored under that name;
\* the documents of the other periods are unchanged; the run identifier is the
\* number of entries of the working directory before the call, plus one.
C4_GenerarSobrescribe ==
    [][ (HuboLlamada /\ ultima'.op = "generar"
            /\ ultima'.impreso = "Nomina generada exitosamente") =>
        LET p == ultima'.aniomes IN
        /\ p = Periodos[hoy]
        /\ Len(nominas'[p]) = 1
        /\ nominas'[p][1].aniomes = p
        /\ nominas'[p][1].id =
              OtrosArchivos + (IF archivo.existe THEN 1 ELSE 0)
                + Cardinality({q \in PeriodosConArchivo : nominas[q] # <<>>}) + 1
        /\ \A q \in PeriodosConArchivo \ {p} : nominas'[q] = nominas[q]
        /\ generadas' = Append(generadas, nominas'[p][1]) ]_vars

\* Two runs for one period: the store holds the second document only.
C4_Witness ==
    /\ Len(generadas) = 2
    /\ generadas[1].aniomes = generadas[2].aniomes
    /\ generadas[1] # generadas[2]
    /\ nominas[generadas[2].aniomes] = <<generadas[2]>>

\* C5: a successful modificar(cedula, cambios) changes only the fields named in
\* cambios of the employee found: its other fields are unchanged, its cedula is
\* the same before and after whatever cambios holds, and every other employee
\* and the order of the roster are unchanged.
C5_SoloCamposNombrados ==
    [][ (HuboLlamada /\ ultima'.op = "modificar" /\ ultima'.ret = "True") =>
        \E i \in 1..Len(empleados) :
            /\ empleados[i]["cedula"] = ultima'.cedula
            /\ \A j \in 1..(i - 1) : empleados[j]["cedula"] # ultima'.cedula
            /\ Len(empleados') = Len(empleados)
            /\ \A j \in 1..Len(empleados) : j # i => empleados'[j] = empleados[j]
            /\ \A k \in CamposSet \ DOMAIN ultima'.cambios :
                    empleados'[i][k] = empleados[i][k]
            /\ empleados'[i]["cedula"] = empleados[i]["cedula"] ]_vars

\* Loading empleados.json yields exactly the in-memory roster: as many records
\* as employees and, record by record, the same keys with the same values.
ArchivoIgualAMemoria ==
    LET datos == IF archivo.existe THEN archivo.datos ELSE <<>> IN
    /\ Len(datos) = Len(empleados)
    /\ \A i \in 1..Len(datos) :
          /\ Len(datos[i]) = Cardinality(DOMAIN empleados[i])
          /\ \A j \in 1..Len(datos[i]) :
                /\ datos[i][j][1] \in DOMAIN empleados[i]
                /\ datos[i][j][2] = empleados[i][datos[i][j][1]]
          /\ \A j, k \in 1..Len(datos[i]) : j # k => datos[i][j][1] # datos[i][k][1]

\* C6: before and after every call, successful or failed, loading
\* empleados.json yields exactly the in-memory roster: the same employees, with
\* the same field values, in the same order; a successful crear / modificar /
\* eliminar leaves the whole roster written, a failed one writes nothing.
C6_ArchivoIgualAMemoria ==
    [][ /\ fase = "menu" => ArchivoIgualAMemoria
        /\ fase' = "menu" => ArchivoIgualAMemoria'
        /\ (HuboLlamada /\ ultima'.op \in {"crear", "modificar", "eliminar"}) =>
              IF ultima'.ret = "True"
              THEN archivo'.existe /\ Len(archivo'.datos) = Len(empleados')
              ELSE archivo' = archivo /\ empleados' = empleados ]_vars

\* A roster of two employees, just modified and saved.
C6_Witness ==
    /\ ultima.op = "modificar" /\ ultima.ret = "True"
    /\ ultima.cambios # <<>>
    /\ Len(empleados) = 2
    /\ archivo.existe

\* C7: for every non-empty roster generar produces a payroll with one detail per
\* employee, in roster order, with ids 1..N; each detail has sueldo equal to the
\* employee's, tot_ing = sueldo + 50, iess = sueldo * 0.0945 to the nearest
\* cent, tot_des = iess + 20 and neto = tot_ing - tot_des; and after every
\* append the three totals are the sums over the details appended so far.
C7_UnDetallePorEmpleado ==
    (ultima.op = "generar" /\ empleados # <<>>) =>
        /\ ultima.ret = "None"
        /\ Len(nominas[ultima.aniomes]) = 1
        /\ LET doc == nominas[ultima.aniomes][1]
               N == Len(empleados)
           IN
           /\ Len(doc.detalles) = N
           /\ \A k \in 1..N :
                LET d == doc.detalles[k] IN
                /\ d.id = k
                /\ d.empleado = empleados[k]["nombre"]
                /\ Num(d.sueldo) = empleados[k]["sueldo"]
                /\ d.tot_ing = d.sueldo + 5000
                /\ 10000 * d.iess - 945 * d.sueldo \in -5000..5000
                /\ d.tot_des = d.iess + 2000
                /\ d.neto = d.tot_ing - d.tot_des
           /\ \A k \in 0..N :
                LET n == nomina_tras(Nomina(doc.id, doc.aniomes), empleados, k) IN
                /\ Len(n.detalles) = k
                /\ n.tot_ing = SumaSeq([i \in 1..k |-> n.detalles[i].tot_ing])
                /\ n.tot_des = SumaSeq([i \in 1..k |-> n.detalles[i].tot_des])
                /\ n.neto = SumaSeq([i \in 1..k |-> n.detalles[i].neto])
           /\ doc.tot_ing = SumaSeq([i \in 1..N |-> doc.detalles[i].tot_ing])
           /\ doc.tot_des = SumaSeq([i \in 1..N |-> doc.detalles[i].tot_des])
           /\ doc.neto = SumaSeq([i \in 1..N |-> doc.detalles[i].neto])

\* C8: eliminar(cedula) with a cedula no employee has returns False and leaves
\* the roster and empleados.json unchanged; with a cedula that is present it
\* returns True and removes exactly one record with that cedula, leaving the
\* other employees, their values and their order unchanged.
C8_EliminarExactamenteUno ==
    [][ (HuboLlamada /\ ultima'.op = "eliminar") =>
        LET c == ultima'.cedula IN
        IF \A i \in 1..Len(empleados) : empleados[i]["cedula"] # c
        THEN /\ ultima'.ret = "False"
             /\ empleados' = empleados
             /\ archivo' = archivo
        ELSE /\ ultima'.ret = "True"
             /\ Len(empleados') = Len(empleados) - 1
             /\ \E i \in 1..Len(empleados) :
                   /\ empleados[i]["cedula"] = c
                   /\ \A j \in 1..(i - 1) : empleados'[j] = empleados[j]
                   /\ \A j \in (i + 1)..Len(empleados) : empleados'[j - 1] = empleados[j] ]_vars

\* The first of two employees was removed; the second is what is left.
C8_Witness ==
    /\ ultima.op = "eliminar" /\ ultima.ret = "True"
    /\ Len(empleados) = 1
    /\ empleados[1]["cedula"] # ultima.cedula
    /\ archivo.existe /\ Len(archivo.datos) = 1

\* C9: consultar over a stored payroll computes, from its details in order:
\* total_empleados = their number; total_neto = the sum of neto; the average of
\* sueldo (0 without details); the names of exactly the details with sueldo >
\* 1000, in order; mayor_neto / menor_neto = the first detail, in order, with the
\* greatest / least neto, none without details.  It changes neither the payroll
\* files nor the roster.
C9_EstadisticasCorrectas ==
    [][ (HuboLlamada /\ ultima'.op = "consultar"
            /\ ultima'.impreso = "Estadisticas de Nomina") =>
        LET D  == nominas[ultima'.aniomes][1].detalles
            N  == Len(D)
            st == estadisticas'
            EsPrimero(x, i, mejor(_, _)) ==
                /\ x[1].id = D[i].id
                /\ x[1].empleado["nombre"] = D[i].empleado
                /\ x[1].neto = D[i].neto
                /\ \A j \in 1..N : ~mejor(D[j].neto, D[i].neto)
                /\ \A j \in 1..(i - 1) : D[j].neto # D[i].neto
            Mayor(a, b) == a > b
            Menor(a, b) == a < b
            Alto(d) == d.sueldo > 100000
            altos == SelectSeq(D, Alto)
        IN
        /\ nominas' = nominas /\ empleados' = empleados /\ archivo' = archivo
        /\ st.total_empleados = N
        /\ st.total_neto = SumaSeq([i \in 1..N |-> D[i].neto])
        /\ IF N = 0 THEN st.promedio_sueldos.num = 0
           ELSE st.promedio_sueldos.num * N =
                    st.promedio_sueldos.den * SumaSeq([i \in 1..N |-> D[i].sueldo])
        /\ st.nombres_altos = [i \in 1..Len(altos) |-> altos[i].empleado]
        /\ IF N = 0 THEN st.mayor_neto = <<>> /\ st.menor_neto = <<>>
           ELSE /\ Len(st.mayor_neto) = 1 /\ Len(st.menor_neto) = 1
                /\ \E i \in 1..N : EsPrimero(st.mayor_neto, i, Mayor)
                /\ \E i \in 1..N : EsPrimero(st.menor_neto, i, Menor) ]_vars

\* Statistics of a payroll of two details with equal neto: the first is reported.
C9_Witness ==
    /\ ultima.op = "consultar" /\ ultima.impreso = "Estadisticas de Nomina"
    /\ estadisticas.total_empleados = 2
    /\ Len(nominas[ultima.aniomes]) = 1
    /\ LET D == nominas[ultima.aniomes][1].detalles IN
       /\ Len(D) = 2 /\ D[1].neto = D[2].neto
       /\ estadisticas.mayor_neto[1].id = D[1].id
       /\ Len(estadisticas.nombres_altos) = 2

\* C10: generar called while the roster is empty returns without raising,
\* reports that there are no employees, and leaves the payroll store as it was:
\* no document is created and a document already stored for the period stays.
C10_GenerarSinEmpleados ==
    [][ (HuboLlamada /\ ultima'.op = "generar" /\ empleados = <<>>) =>
        /\ ultima'.ret = "None"
        /\ ultima'.impreso = "No hay empleados para generar la nomina."
        /\ nominas' = nominas
        /\ generadas' = generadas ]_vars

\* generar on an empty roster, with a payroll already stored for the period.
C10_Witness ==
    /\ ultima.op = "generar" /\ empleados = <<>>
    /\ ultima.impreso = "No hay empleados para generar la nomina."
    /\ nominas[ultima.aniomes] # <<>>

\* C11: loading the roster at startup never fails: when empleados.json is
\* missing or malformed (not decodable into a sequence of employee records) the
\* manager starts with an empty roster instead of raising; when it is well
\* formed the roster holds one Empleado per record, in document order.
C11_CargaNuncaFalla ==
    ultima.op = "main" =>
        LET malformado ==
                archivo.existe /\
                    (\/ ~archivo.json
                     \/ \E i \in 1..Len(archivo.datos) :
                           {archivo.datos[i][j][1] : j \in 1..Len(archivo.datos[i])}
                               # {"cedula", "nombre", "sueldo", "departamento", "cargo"})
        IN
        /\ ultima.ret = "None"
        /\ fase = "menu"
        /\ IF ~archivo.existe \/ malformado
           THEN empleados = <<>>
           ELSE /\ Len(empleados) = Len(archivo.datos)
                /\ \A i \in 1..Len(archivo.datos) :
                      \A j \in 1..Len(archivo.datos[i]) :
                          empleados[i][archivo.datos[i][j][1]] = archivo.datos[i][j][2]

====
